---- MODULE Spec2Model ----
(***************************************************************************)
(* FlashKV: a key-value map kept in RAM and persisted as one image in a    *)
(* flash region through caller-supplied read/write/erase functions.        *)
(* Model of src/src/FlashKV.cpp and src/include/FlashKV/FlashKV.h.         *)
(*                                                                         *)
(* One engine object lives at a time over one flash device.  Construct     *)
(* destroys the current object (the destructor body is empty) and builds   *)
(* a new one over the same device.  Every public method is one action.     *)
(***************************************************************************)
EXTENDS Integers, Sequences, FiniteSets, TLC

(***************************************************************************)
(* Program constants                                                       *)
(***************************************************************************)
\* FlashKV.h:41  const uint8_t FLASHKV_SIGNATURE[4] = {'F','K','V','S'}
FLASHKV_SIGNATURE == <<70, 75, 86, 83>>

\* FlashKV.h:42  sizeof(FLASHKV_SIGNATURE)
FLASHKV_SIGNATURE_SIZE == Len(FLASHKV_SIGNATURE)

\* sizeof(uint16_t): the width of the two length fields of a record
U16Size == 2

\* range of a uint16_t
U16Mod == 65536

\* range of a size_t.  Only the wrap below zero and above the top matters;
\* the width is represented by 2^30 so that sums stay inside TLC's integers.
SizeMod == 1073741824

(***************************************************************************)
(* Bounds of the model                                                     *)
(***************************************************************************)
\* constructor argument flashAddress: first address of the region
FlashAddress == 0

\* constructor argument flashSize: number of bytes of the region
FlashSize == 9

\* constructor argument flashPageSize: the smallest unit the device writes
FlashPageSize == 3

\* bytes of the device that lie after the region and belong to someone else
Beyond == 1

\* longest key and longest value handed to writeKey
MaxKeyLen == 1

MaxValLen == 1

\* the read calls of one loadMap that the driver may fail: call 1 .. MaxFail
MaxFail == 5

\* calls the driver may fail in one behaviour
MaxFaults == 1

DeviceSize == FlashAddress + FlashSize + Beyond

KeyChars == {97}

ValBytes == {1}

\* value a flash sector holds after an erase
ErasedByte == 255

(***************************************************************************)
(* Sequences of bytes                                                      *)
(***************************************************************************)
SeqsUpTo(S, n) == UNION {[1..m -> S] : m \in 0..n}

Keys == SeqsUpTo(KeyChars, MaxKeyLen)

Values == SeqsUpTo(ValBytes, MaxValLen)

Zeros(n) == [i \in 1..n |-> 0]

\* the set of all orderings of the finite set S
Perms(S) == {p \in [1..Cardinality(S) -> S] : \A i, j \in 1..Cardinality(S) : p[i] = p[j] => i = j}

\* sequence s without the element e
Without(s, e) == SelectSeq(s, LAMBDA x : x # e)

\* reinterpret_cast<uint8_t *>(&n), n a uint16_t: the two bytes, low byte first
U16Bytes(n) == <<n % 256, (n \div 256) % 256>>

\* the uint16_t stored in two bytes
U16Of(b) == b[1] + 256 * b[2]

\* std::string::size() / std::vector::size() assigned to a uint16_t
ToU16(n) == n % U16Mod

\* size_t arithmetic
SizeAdd(a, b) == (a + b) % SizeMod

SizeSub(a, b) == (a - b + SizeMod) % SizeMod

\* sizeof(uint16_t) + key.size() + sizeof(uint16_t) + value.size()
Footprint(key, value) == SizeAdd(SizeAdd(SizeAdd(U16Size, Len(key)), U16Size), Len(value))


(***************************************************************************)
(* State                                                                   *)
(***************************************************************************)
VARIABLES
    flash,            \* the device: byte at address a is flash[a + 1]
    _keyValueMap,     \* the entries: a function from keys to values
    mapOrder,         \* iteration order of the unordered_map: a sequence of its keys
    _serialisedSize,  \* the size tally
    _mapLoaded,       \* the loaded flag
    everLoaded,       \* history: a loadMap of this object has returned 0 or 1
    image,            \* history: what the last saveMap that reached the device wrote
    faults,           \* history: number of calls the driver has failed so far
    staticObject,     \* the engine objects have static storage duration
    last              \* the last call: method, arguments, result, flash calls issued

vars == <<flash, _keyValueMap, mapOrder, _serialisedSize, _mapLoaded, everLoaded, image, faults, staticObject, last>>

engine == <<_keyValueMap, mapOrder, _serialisedSize, _mapLoaded>>

EmptyMap == [k \in {} |-> <<>>]

\* _keyValueMap[key] = value
MapPut(m, key, value) == [k \in DOMAIN m \cup {key} |-> IF k = key THEN value ELSE m[k]]

\* mutant: the entry is looked up and left in the map
MapEraseKept(m, key) == m

\* _keyValueMap.erase(it)
MapErase(m, key) == [k \in DOMAIN m \ {key} |-> m[k]]

\* bytes the records of map m take on flash, whatever their order
RecordBytes(m) == LET RECURSIVE Sum(_)
                      Sum(S) == IF S = {} THEN 0
                                ELSE LET k == CHOOSE x \in S : TRUE
                                     IN  U16Size + Len(k) + U16Size + Len(m[k]) + Sum(S \ {k})
                  IN  Sum(DOMAIN m)

\* the orders an unordered_map may iterate in after an insertion: unchanged
\* when no key was added, any order when one was (the table may rehash)
OrdersAfter(order, m) == IF DOMAIN m = {order[i] : i \in 1..Len(order)}
                         THEN {order}
                         ELSE Perms(DOMAIN m)

(***************************************************************************)
(* The flash driver (caller-supplied functions)                            *)
(***************************************************************************)
\* the addresses a call covers lie on the device
OnDevice(addr, count) == addr >= 0 /\ addr + count <= DeviceSize

\* the addresses a call covers lie in the region of this engine
InRegion(addr, count) == addr >= FlashAddress /\ addr + count <= FlashAddress + FlashSize

\* the count bytes read at addr
ReadBytes(mem, addr, count) == [i \in 1..count |-> mem[addr + i]]

\* the device after a write of buf at addr
WriteBytes(mem, addr, buf) == [a \in 1..Len(mem) |-> IF a > addr /\ a <= addr + Len(buf) THEN buf[a - addr] ELSE mem[a]]

\* the device after an erase of count bytes at addr
EraseBytes(mem, addr, count) == [a \in 1..Len(mem) |-> IF a > addr /\ a <= addr + count THEN ErasedByte ELSE mem[a]]

\* the record of one call of a flash function
Call(fn, addr, count, ok) == [fn |-> fn, addr |-> addr, count |-> count, ok |-> ok]

\* the record of one call of a method of the engine
Done(op, key, value, ok, code, out, calls) == [op |-> op, key |-> key, value |-> value, ok |-> ok, code |-> code, out |-> out, calls |-> calls]

NoImage == [valid |-> FALSE, map |-> EmptyMap]

(***************************************************************************)
(* loadMap                                                                 *)
(***************************************************************************)
\* values an uninitialised uint16_t local may hold when the read that should
\* have filled it failed
GarbageU16 == {0, 1}

\* the numbers of the read calls of one loadMap the driver may fail (0: none)
FailChoices == IF faults < MaxFaults THEN 0..MaxFail ELSE {0}

\* the driver serves call number idx of a loadMap: the call is not the one it
\* fails this time and the addresses exist
ReadOk(addr, count, idx, failAt) == idx # failAt /\ OnDevice(addr, count)

\* mutant: the scan ends at an erased key length instead of a zero one
EndOfRecordsErased(keySize) == keySize = U16Mod - 1

\* FlashKV.cpp:73: if (keySize == 0) break
EndOfRecords(keySize) == keySize = 0

\* FlashKV.cpp:66-96, the while (1) loop, from the cursor st.offset on.
\* A failed read leaves its buffer as it was: keySize and valueSize
\* uninitialised, key and value zero-filled by resize().  The result of
\* every read is ignored by the code.  Once the cursor is past the last
\* address of the device every later read fails: the loop ends when the
\* uninitialised keySize happens to be 0 and never otherwise.
RECURSIVE LoadScan(_, _, _, _)
LoadScan(mem, st, failAt, garbage) ==
    LET a1        == FlashAddress + st.offset
        ok1       == ReadOk(a1, U16Size, Len(st.calls) + 1, failAt)
        keySize   == IF ok1 THEN U16Of(ReadBytes(mem, a1, U16Size)) ELSE garbage
        c1        == Append(st.calls, Call("read", a1, U16Size, ok1))
        o2        == SizeAdd(st.offset, U16Size)
        a2        == FlashAddress + o2
        ok2       == ReadOk(a2, keySize, Len(c1) + 1, failAt)
        key       == IF ok2 THEN ReadBytes(mem, a2, keySize) ELSE Zeros(keySize)
        c2        == Append(c1, Call("read", a2, keySize, ok2))
        o3        == SizeAdd(o2, keySize)
        a3        == FlashAddress + o3
        ok3       == ReadOk(a3, U16Size, Len(c2) + 1, failAt)
        valueSize == IF ok3 THEN U16Of(ReadBytes(mem, a3, U16Size)) ELSE garbage
        c3        == Append(c2, Call("read", a3, U16Size, ok3))
        o4        == SizeAdd(o3, U16Size)
        a4        == FlashAddress + o4
        ok4       == ReadOk(a4, valueSize, Len(c3) + 1, failAt)
        value     == IF ok4 THEN ReadBytes(mem, a4, valueSize) ELSE Zeros(valueSize)
        c4        == Append(c3, Call("read", a4, valueSize, ok4))
        o5        == SizeAdd(o4, valueSize)
    IN  IF EndOfRecords(keySize)
        THEN [offset |-> st.offset, map |-> st.map, calls |-> c1, returned |-> TRUE]
        ELSE IF a1 >= DeviceSize
        THEN [offset |-> st.offset, map |-> st.map, calls |-> c1, returned |-> FALSE]
        ELSE LoadScan(mem, [offset |-> o5, map |-> MapPut(st.map, key, value), calls |-> c4],
                      failAt, garbage)

\* FlashKV.cpp:56-62: the signature read and the memcmp
SignatureRead(failAt) == Call("read", FlashAddress, FLASHKV_SIGNATURE_SIZE, ReadOk(FlashAddress, FLASHKV_SIGNATURE_SIZE, 1, failAt))

SignatureValid(mem) == ReadBytes(mem, FlashAddress, FLASHKV_SIGNATURE_SIZE) = FLASHKV_SIGNATURE

\* the scan of a whole loadMap call on an engine holding map m
LoadResult(mem, m, failAt, garbage) ==
    LoadScan(mem, [offset |-> FLASHKV_SIGNATURE_SIZE, map |-> m, calls |-> <<SignatureRead(failAt)>>],
             failAt, garbage)

\* the driver failed one of the calls listed
Failed(calls) == IF \E i \in 1..Len(calls) : ~calls[i].ok /\ OnDevice(calls[i].addr, calls[i].count) THEN 1 ELSE 0

\* int FlashKV::loadMap().  A call that does not return leaves the object
\* as the loop left it and ends the behaviour of its caller.
LoadMap ==
    /\ last.op # "loadMapRunaway"
    /\ \E failAt \in FailChoices, garbage \in GarbageU16 :
         LET sig == SignatureRead(failAt)
             r   == LoadResult(flash, _keyValueMap, failAt, garbage)
         IN  IF ~sig.ok
             THEN /\ last' = Done("loadMap", <<>>, <<>>, FALSE, -1, <<>>, <<sig>>)
                  /\ faults' = faults + Failed(<<sig>>)
                  /\ UNCHANGED <<engine, everLoaded>>
             ELSE IF ~SignatureValid(flash)
             THEN /\ _mapLoaded' = TRUE
                  /\ everLoaded' = TRUE
                  /\ last' = Done("loadMap", <<>>, <<>>, TRUE, 1, <<>>, <<sig>>)
                  /\ UNCHANGED <<_keyValueMap, mapOrder, _serialisedSize, faults>>
             ELSE IF r.returned
             THEN /\ _keyValueMap' = r.map
                  /\ mapOrder' \in OrdersAfter(mapOrder, r.map)
                  /\ _serialisedSize' = r.offset
                  /\ _mapLoaded' = TRUE
                  /\ everLoaded' = TRUE
                  /\ faults' = faults + Failed(r.calls)
                  /\ last' = Done("loadMap", <<>>, <<>>, TRUE, 0, <<>>, r.calls)
             ELSE /\ _keyValueMap' = r.map
                  /\ mapOrder' \in OrdersAfter(mapOrder, r.map)
                  /\ faults' = faults + Failed(r.calls)
                  /\ last' = Done("loadMapRunaway", <<>>, <<>>, FALSE, 0, <<>>, r.calls)
                  /\ UNCHANGED <<_serialisedSize, _mapLoaded, everLoaded>>
    /\ UNCHANGED <<flash, image, staticObject>>

(***************************************************************************)
(* saveMap                                                                 *)
(***************************************************************************)
\* FlashKV.cpp:131-139: one entry as it is appended to the buffer
Record(key, value) == U16Bytes(ToU16(Len(key))) \o key \o U16Bytes(ToU16(Len(value))) \o value

\* FlashKV.cpp:129-140: the entries in iteration order
RECURSIVE Records(_, _)
Records(m, order) == IF order = <<>> THEN <<>>
                     ELSE Record(Head(order), m[Head(order)]) \o Records(m, Tail(order))

\* mutant: the padding byte depends on what the region held before the
\* save: 1 when its last byte was 0, and 0 otherwise
PaddedInverting(buf) == IF Len(buf) < FlashSize
                        THEN buf \o [i \in 1..(FlashSize - Len(buf)) |-> IF flash[FlashAddress + FlashSize] = 0 THEN 1 ELSE 0]
                        ELSE buf

\* FlashKV.cpp:143-144: while (buffer.size() < _flashSize) buffer.push_back(0)
Padded(buf) == IF Len(buf) < FlashSize THEN buf \o Zeros(FlashSize - Len(buf)) ELSE buf

\* mutant: the buffer starts with the records, the signature is left out
BufferNoSignature(m, order) == Padded(Records(m, order))

\* FlashKV.cpp:122-144: the buffer saveMap hands to the write function
Buffer(m, order) == Padded(FLASHKV_SIGNATURE \o Records(m, order))

\* mutant: the write is issued although the erase failed
SaveCallsNoReturn(eraseOk, writeOk, buf) ==
    <<Call("erase", FlashAddress, FlashSize, eraseOk /\ OnDevice(FlashAddress, FlashSize)),
      Call("write", FlashAddress, Len(buf), writeOk /\ OnDevice(FlashAddress, Len(buf)))>>

\* FlashKV.cpp:119-120 and 147-148: the flash calls of a saveMap on a loaded
\* engine; a failed erase returns before the write
SaveCalls(eraseOk, writeOk, buf) ==
    LET e == Call("erase", FlashAddress, FlashSize, eraseOk /\ OnDevice(FlashAddress, FlashSize))
        w == Call("write", FlashAddress, Len(buf), writeOk /\ OnDevice(FlashAddress, Len(buf)))
    IN  IF e.ok THEN <<e, w>> ELSE <<e>>

\* every call of the list succeeded
AllOk(calls) == \A i \in 1..Len(calls) : calls[i].ok

\* bool FlashKV::saveMap().  A failed erase leaves the device as it was, a
\* failed write leaves the region erased.
SaveMap ==
    /\ last.op # "loadMapRunaway"
    /\ \E eraseOk, writeOk \in (IF faults < MaxFaults THEN BOOLEAN ELSE {TRUE}) :
         LET buf    == Buffer(_keyValueMap, mapOrder)
             calls  == SaveCalls(eraseOk, writeOk, buf)
             erased == EraseBytes(flash, FlashAddress, FlashSize)
         IN  IF ~_mapLoaded
             THEN /\ last' = Done("saveMap", <<>>, <<>>, FALSE, 0, <<>>, <<>>)
                  /\ UNCHANGED <<flash, image, faults>>
             ELSE /\ last' = Done("saveMap", <<>>, <<>>, AllOk(calls), 0, <<>>, calls)
                  /\ faults' = faults + Failed(calls)
                  /\ flash' = IF AllOk(calls) THEN WriteBytes(erased, FlashAddress, buf)
                              ELSE IF calls[1].ok THEN erased
                              ELSE flash
                  /\ image' = IF AllOk(calls) THEN [valid |-> everLoaded, map |-> _keyValueMap]
                              ELSE IF calls[1].ok THEN NoImage
                              ELSE image
    /\ UNCHANGED <<engine, everLoaded, staticObject>>

(***************************************************************************)
(* Key operations                                                          *)
(***************************************************************************)
\* FlashKV.cpp:160: the admission test of writeKey
Admits(size, key, value) == SizeAdd(size, Footprint(key, value)) <= FlashSize

\* bool FlashKV::writeKey(std::string key, std::vector<uint8_t> value)
WriteKey(key, value) ==
    /\ last.op # "loadMapRunaway"
    /\ IF _mapLoaded /\ Admits(_serialisedSize, key, value)
       THEN /\ _keyValueMap' = MapPut(_keyValueMap, key, value)
            /\ mapOrder' \in OrdersAfter(mapOrder, MapPut(_keyValueMap, key, value))
            /\ _serialisedSize' = SizeAdd(_serialisedSize, Footprint(key, value))
            /\ last' = Done("writeKey", key, value, TRUE, 0, <<>>, <<>>)
       ELSE /\ last' = Done("writeKey", key, value, FALSE, 0, <<>>, <<>>)
            /\ UNCHANGED <<_keyValueMap, mapOrder, _serialisedSize>>
    /\ UNCHANGED <<flash, image, _mapLoaded, everLoaded, faults, staticObject>>

\* mutant: the lookup is made with operator[], which inserts an empty value
\* for a key the map does not hold
ReadKeyInserting(key) ==
    /\ last.op # "loadMapRunaway"
    /\ LET m == IF _mapLoaded /\ key \notin DOMAIN _keyValueMap
                THEN MapPut(_keyValueMap, key, <<>>)
                ELSE _keyValueMap
       IN  /\ _keyValueMap' = m
           /\ mapOrder' \in OrdersAfter(mapOrder, m)
           /\ last' = Done("readKey", key, <<>>, FALSE, 0,
                           IF _mapLoaded THEN <<m[key]>> ELSE <<>>, <<>>)
    /\ UNCHANGED <<flash, image, _serialisedSize, _mapLoaded, everLoaded, faults, staticObject>>

\* std::optional<std::vector<uint8_t>> FlashKV::readKey(std::string key)
\* the optional is a sequence of no or one value
ReadKey(key) ==
    /\ last.op # "loadMapRunaway"
    /\ last' = Done("readKey", key, <<>>, FALSE, 0,
                    IF _mapLoaded /\ key \in DOMAIN _keyValueMap THEN <<_keyValueMap[key]>> ELSE <<>>,
                    <<>>)
    /\ UNCHANGED <<flash, image, engine, everLoaded, faults, staticObject>>

\* bool FlashKV::eraseKey(std::string key)
EraseKey(key) ==
    /\ last.op # "loadMapRunaway"
    /\ IF _mapLoaded /\ key \in DOMAIN _keyValueMap
       THEN /\ _serialisedSize' = SizeSub(_serialisedSize, Footprint(key, _keyValueMap[key]))
            /\ _keyValueMap' = MapErase(_keyValueMap, key)
            /\ mapOrder' = Without(mapOrder, key)
            /\ last' = Done("eraseKey", key, <<>>, TRUE, 0, <<>>, <<>>)
       ELSE /\ last' = Done("eraseKey", key, <<>>, FALSE, 0, <<>>, <<>>)
            /\ UNCHANGED <<_keyValueMap, mapOrder, _serialisedSize>>
    /\ UNCHANGED <<flash, image, _mapLoaded, everLoaded, faults, staticObject>>

\* std::vector<std::string> FlashKV::getAllKeys()
GetAllKeys ==
    /\ last.op # "loadMapRunaway"
    /\ last' = Done("getAllKeys", <<>>, <<>>, FALSE, 0, mapOrder, <<>>)
    /\ UNCHANGED <<flash, image, engine, everLoaded, faults, staticObject>>

(***************************************************************************)
(* Construction                                                            *)
(***************************************************************************)
\* FlashKV.h:159  bool mapLoaded, with no initialiser: after construction it
\* holds what the storage of the object held, which is zero for an object of
\* static storage duration and anything otherwise
FlagValues == IF staticObject THEN {FALSE} ELSE BOOLEAN

\* FlashKV::FlashKV: the initialiser list sets the three functions and the
\* four sizes; the map is default-constructed, serialisedSize has its
\* default member initialiser 0 and mapLoaded has none
Fresh(loaded) ==
    /\ _keyValueMap = EmptyMap
    /\ mapOrder = <<>>
    /\ _serialisedSize = 0
    /\ _mapLoaded = loaded
    /\ everLoaded = FALSE
    /\ last = Done("construct", <<>>, <<>>, FALSE, 0, <<>>, <<>>)

\* ~FlashKV() of the current object (empty body), then a new object over the
\* same device
Construct ==
    /\ last.op # "loadMapRunaway"
    /\ _keyValueMap' = EmptyMap
    /\ mapOrder' = <<>>
    /\ _serialisedSize' = 0
    /\ _mapLoaded' \in FlagValues
    /\ everLoaded' = FALSE
    /\ last' = Done("construct", <<>>, <<>>, FALSE, 0, <<>>, <<>>)
    /\ UNCHANGED <<flash, image, faults, staticObject>>

(***************************************************************************)
(* Initial contents of the device                                          *)
(***************************************************************************)
\* the first n bytes of s followed by fill, or of s repeated
Fit(s, n, fill) == [i \in 1..n |-> IF i <= Len(s) THEN s[i] ELSE fill]

Cyclic(s, n) == [i \in 1..n |-> s[((i - 1) % Len(s)) + 1]]

\* contents of the region before the first save: erased flash, an empty
\* store, a store whose sentinel is followed by foreign bytes, and a
\* signature followed by records up to the last byte
InitRegions ==
    { Fit(<<>>, FlashSize, ErasedByte),
      Fit(FLASHKV_SIGNATURE, FlashSize, 0),
      FLASHKV_SIGNATURE \o <<0, 0>> \o Cyclic(Record(<<98>>, <<>>), FlashSize - FLASHKV_SIGNATURE_SIZE - U16Size),
      FLASHKV_SIGNATURE \o Cyclic(Record(<<98>>, <<>>), FlashSize - FLASHKV_SIGNATURE_SIZE) }

\* contents of the bytes after the region
InitBeyond == { Zeros(Beyond) }

\* the device and the first engine object
Start ==
    /\ flash \in {Zeros(FlashAddress) \o r \o b : r \in InitRegions, b \in InitBeyond}
    /\ image = NoImage
    /\ \E loaded \in FlagValues : Fresh(loaded)

\* engine objects of automatic or dynamic storage duration over a driver
\* that fails up to MaxFaults calls
Init ==
    /\ staticObject = FALSE
    /\ faults = 0
    /\ Start

\* engine objects of static storage duration over a driver that fails no call
InitStatic ==
    /\ staticObject = TRUE
    /\ faults = MaxFaults
    /\ Start

Next ==
    \/ Construct
    \/ LoadMap
    \/ SaveMap
    \/ \E key \in Keys, value \in Values : WriteKey(key, value)
    \/ \E key \in Keys \cup DOMAIN _keyValueMap : ReadKey(key)
    \/ \E key \in Keys \cup DOMAIN _keyValueMap : EraseKey(key)
    \/ GetAllKeys

Spec == Init /\ [][Next]_vars

SpecStatic == InitStatic /\ [][Next]_vars

(***************************************************************************)
(* Properties                                                              *)
(***************************************************************************)
\* bytes the store takes on flash: signature plus records
RealSize(m) == FLASHKV_SIGNATURE_SIZE + RecordBytes(m)

\* the step is a call of one of the methods named
Calls(ops) == last'.op \in ops

\* the driver failed no call that lies inside the region
RegionReadsOk(calls) == \A i \in 1..Len(calls) : InRegion(calls[i].addr, calls[i].count) => calls[i].ok

\* some call of the list failed
SomeFailed(calls) == \E i \in 1..Len(calls) : ~calls[i].ok

\* C1: after a successful saveMap by a loaded engine, a freshly constructed
\* engine that runs loadMap on the same region (the driver serving every read
\* inside the region) returns with a map equal to the map that was saved.
RoundTrip ==
    [][(/\ last.op = "construct"
        /\ image.valid
        /\ Calls({"loadMap", "loadMapRunaway"})
        /\ RegionReadsOk(last'.calls))
       => (/\ last'.op = "loadMap"
           /\ last'.code = 0
           /\ _keyValueMap' = image.map)]_vars

\* C2: on a loaded engine a writeKey whose footprint would push the
\* serialized size of the store (signature plus records) past the region
\* size returns false and leaves the map and the tally unchanged.
CapacityBoundary ==
    [][(/\ everLoaded
        /\ Calls({"writeKey"})
        /\ RealSize(_keyValueMap) + Footprint(last'.key, last'.value) > FlashSize)
       => (/\ ~last'.ok
           /\ UNCHANGED <<_keyValueMap, _serialisedSize>>)]_vars

\* C3: on a loaded engine writeKey returns true and stores the entry
\* whenever the resulting map serializes to at most the region size.
WriteKeyAcceptance ==
    [][(/\ everLoaded
        /\ Calls({"writeKey"})
        /\ RealSize(MapPut(_keyValueMap, last'.key, last'.value)) <= FlashSize)
       => (/\ last'.ok
           /\ _keyValueMap' = MapPut(_keyValueMap, last'.key, last'.value))]_vars

\* C4: in every reachable state the tally is at most the region size.
CapacityInvariant == _serialisedSize <= FlashSize

\* C5: on an engine no loadMap of which has returned Found or NotFound,
\* saveMap, writeKey and eraseKey return false, readKey returns no value,
\* no flash function is called and the map and the device are unchanged
\* (stated for a driver that has failed no call).
NotLoadedMisuse ==
    [][(/\ ~everLoaded
        /\ faults' = 0
        /\ Calls({"saveMap", "writeKey", "eraseKey", "readKey"}))
       => (/\ ~last'.ok
           /\ last'.out = <<>>
           /\ last'.calls = <<>>
           /\ UNCHANGED <<_keyValueMap, flash>>)]_vars

\* the only read of a loadMap that finds no signature
SignatureOnly == <<Call("read", FlashAddress, FLASHKV_SIGNATURE_SIZE, TRUE)>>

LoadErrorsSurfaced ==
    last.op \in {"loadMap", "loadMapRunaway"} =>
        \A i \in 1..Len(last.calls) :
            ~last.calls[i].ok => (i = Len(last.calls) /\ last.op = "loadMap" /\ last.code = -1)

\* C8: after a loadMap, on an engine that was not loaded, during which a
\* flash read failed, the map holds no entry it did not hold before and the
\* engine is not loaded.
FailedLoadCommitsNothing ==
    [][(/\ ~_mapLoaded
        /\ Calls({"loadMap", "loadMapRunaway"})
        /\ SomeFailed(last'.calls))
       => (/\ \A k \in DOMAIN _keyValueMap' : k \in DOMAIN _keyValueMap /\ _keyValueMap'[k] = _keyValueMap[k]
           /\ ~_mapLoaded')]_vars

\* C9: when the erase or the write of a saveMap fails, saveMap returns
\* false, the failed call is its last flash call and the map, its order, the
\* tally and the loaded flag are unchanged; when both succeed saveMap returns
\* true and the region holds the image of that unchanged map.
SaveFailureKeepsState ==
    [][(Calls({"saveMap"}) /\ _mapLoaded)
       => /\ SomeFailed(last'.calls)
             => (/\ ~last'.ok
                 /\ AllOk(SubSeq(last'.calls, 1, Len(last'.calls) - 1))
                 /\ UNCHANGED engine)
          /\ AllOk(last'.calls)
             => (/\ last'.ok
                 /\ UNCHANGED engine
                 /\ ReadBytes(flash', FlashAddress, Len(Buffer(_keyValueMap, mapOrder))) = Buffer(_keyValueMap, mapOrder))]_vars

\* the write of a saveMap of a loaded engine holding entries has failed
SaveWriteFailed ==
    /\ last.op = "saveMap"
    /\ ~last.ok
    /\ Len(last.calls) = 2
    /\ everLoaded
    /\ _keyValueMap # EmptyMap

\* the key-length reads of a loadMap: call 2 and every fourth call after it
KeyLenCalls(calls) == {i \in 2..Len(calls) : (i - 2) % 4 = 0}

\* the key-length reads that were served, with every read before them, and
\* returned 0
ZeroKeyLenCalls(mem, calls) ==
    {i \in KeyLenCalls(calls) : /\ AllOk(SubSeq(calls, 1, i))
                                /\ U16Of(ReadBytes(mem, calls[i].addr, calls[i].count)) = 0}

\* the map after the records read by the calls 2..n of a loadMap, four
\* calls a record, are stored into m
RECURSIVE RecordsRead(_, _, _, _)
RecordsRead(mem, calls, n, m) ==
    IF n < 5 THEN m
    ELSE MapPut(RecordsRead(mem, calls, n - 4, m),
                ReadBytes(mem, calls[n - 2].addr, calls[n - 2].count),
                ReadBytes(mem, calls[n].addr, calls[n].count))

\* C10: when the region starts with 'FKVS' and a key-length read of loadMap
\* returns 0, that read is the last flash call of the loadMap, no call reads
\* an address after that field, loadMap returns Found and the map gains the
\* records read before it and nothing else.
SentinelCorrectness ==
    [][(/\ Calls({"loadMap", "loadMapRunaway"})
        /\ SignatureValid(flash)
        /\ ZeroKeyLenCalls(flash, last'.calls) # {})
       => LET calls == last'.calls
              z     == CHOOSE i \in ZeroKeyLenCalls(flash, calls) : \A j \in ZeroKeyLenCalls(flash, calls) : i <= j
          IN  /\ last'.op = "loadMap"
              /\ last'.code = 0
              /\ Len(calls) = z
              /\ \A j \in 1..Len(calls) : calls[j].addr + calls[j].count <= calls[z].addr + U16Size
              /\ _keyValueMap' = RecordsRead(flash, calls, z - 1, _keyValueMap)]_vars

\* a loadMap has stopped at a zero key length that is followed by bytes
\* that are not zero
SentinelBeforeGarbage ==
    /\ last.op = "loadMap"
    /\ last.code = 0
    /\ AllOk(last.calls)
    /\ LET c == last.calls[Len(last.calls)]
       IN  /\ InRegion(c.addr, c.count + 1)
           /\ flash[c.addr + c.count + 1] # 0

\* the bytes the write call of a successful saveMap covered, as the device
\* holds them
WrittenImage(mem, calls) == ReadBytes(mem, calls[Len(calls)].addr, calls[Len(calls)].count)

\* img is 'FKVS', one record for each entry of m in some order, a zero key
\* length and zero bytes up to its end
WellFormedImage(img, m) ==
    \E order \in Perms(DOMAIN m) :
        LET body == FLASHKV_SIGNATURE \o Records(m, order) \o U16Bytes(0)
        IN  /\ Len(img) >= Len(body)
            /\ img = body \o Zeros(Len(img) - Len(body))

\* C11: after a successful saveMap the written image is 'FKVS', then one
\* record for each map entry (key length, key, value length, value, the two
\* lengths being the true ones) back to back, then a zero key length, then
\* zero bytes only.
ImageLayout ==
    [][(Calls({"saveMap"}) /\ last'.ok)
       => WellFormedImage(WrittenImage(flash', last'.calls), _keyValueMap)]_vars

\* every call of the list succeeded and covers addresses of the region only
InRegionOk(calls) == \A i \in 1..Len(calls) : calls[i].ok /\ InRegion(calls[i].addr, calls[i].count)

Region(mem) == ReadBytes(mem, FlashAddress, FlashSize)

\* C13: when a loaded engine is destroyed the destructor issues the erase
\* of the region and the write of the image of the current map, and when
\* both succeed the region holds that image.
TeardownSave ==
    [][(Calls({"construct"}) /\ everLoaded /\ _mapLoaded)
       => (/\ Len(last'.calls) >= 1
           /\ last'.calls[1].fn = "erase"
           /\ AllOk(last'.calls)
              => (/\ Len(last'.calls) = 2
                  /\ last'.calls[2].fn = "write"
                  /\ WrittenImage(flash', last'.calls) = Buffer(_keyValueMap, mapOrder)))]_vars

TallyAccuracy == everLoaded => _serialisedSize = RealSize(_keyValueMap)

\* C16: every write call of a saveMap starts a whole number of pages after
\* the region base and covers exactly one page.
PageChunkedWrites ==
    last.op = "saveMap" =>
        \A i \in 1..Len(last.calls) :
            last.calls[i].fn = "write" =>
                /\ last.calls[i].count = FlashPageSize
                /\ (last.calls[i].addr - FlashAddress) % FlashPageSize = 0

AllInRegion(calls) == \A i \in 1..Len(calls) : InRegion(calls[i].addr, calls[i].count)

\* C18: every erase and every write call of a saveMap covers addresses of
\* the region only, so the buffer written is at most flashSize long.
SaveInRegion == last.op = "saveMap" => AllInRegion(last.calls)

\* C19: every loadMap returns and every read it issues covers addresses of
\* the region only.
LoadInRegion ==
    last.op \in {"loadMap", "loadMapRunaway"} =>
        (last.op = "loadMap" /\ AllInRegion(last.calls))

\* C20: after a loadMap that returns Found or NotFound, every read served,
\* the map holds the records read from the device and nothing else: no
\* entry for NotFound.
LoadReplacesMap ==
    [][(/\ Calls({"loadMap"})
        /\ last'.code \in {0, 1}
        /\ AllOk(last'.calls))
       => _keyValueMap' = IF last'.code = 1 THEN EmptyMap
                          ELSE RecordsRead(flash, last'.calls, Len(last'.calls) - 1, EmptyMap)]_vars

====
